---- MODULE Spec2Model ----
(***************************************************************************)
(* Model of build.py of starplot-bigsky: build_magnitude() reads the Big   *)
(* Sky CSV, filters and numbers its rows in the generator stars(), hands   *)
(* the generator to Catalog.build(), reads the catalog back with           *)
(* Star.all() and Star.get() and asserts on what it reads; build() calls   *)
(* build_magnitude() for the limits 16, 11 and 9.                          *)
(*                                                                         *)
(* Magnitudes are integers in hundredths of a magnitude (-1.44 is -144).   *)
(* A CSV cell of a rate column is a float: Num(v), or NaN for an empty     *)
(* cell.  The pass-through columns tyc, dec, ccdm, bv and parallax_mas are *)
(* copied exactly like hip and are represented by it.  Catalog and Star    *)
(* are the imported starplot package; their steps are modelled from the    *)
(* design document and are marked so in the comments.                      *)
(***************************************************************************)
EXTENDS Integers, Sequences, FiniteSets, TLC

VARIABLES
    input,              \* df: the rows of the CSV file, in file order
    limiting_magnitude, \* argument of build_magnitude
    expected_count,     \* argument of build_magnitude
    chunk_size,         \* configuration passed to Catalog.build
    row_group_size,     \* configuration passed to Catalog.build
    pc,                 \* position in build_magnitude
    i,                  \* rows of df consumed by d.itertuples()
    ctr,                \* the generator's counter
    emitted,            \* history: every Star the generator has yielded
    src,                \* history: the row number each yielded Star came from
    buffer,             \* Catalog.build: the chunk being collected
    pending,            \* Catalog.build: the sorted chunk still to be written
    chunk_no,           \* Catalog.build: chunks flushed so far
    disk,               \* output path -> the artifact stored there
    all_stars,          \* the list read back with Star.all
    sirius,             \* the result of Star.get: <<>> (not found) or <<star>>
    failure,            \* why build_magnitude raised, "" while it has not
    call,               \* which call of build() is running (1..3)
    run,                \* which run of build() this is
    written,            \* history: paths completed builds of any run wrote to
    written_run         \* history: paths completed builds of this run wrote to

vars == <<input, limiting_magnitude, expected_count, chunk_size, row_group_size,
          pc, i, ctr, emitted, src, buffer, pending, chunk_no, disk, all_stars,
          sirius, failure, call, run, written, written_run>>

(***************************************************************************)
(* Bounds and program constants                                            *)
(***************************************************************************)
MaxLen == 3
MaxRuns == 2

ChunkSize == 5000000
RowGroupSize == 100000
HealpixNside == 4
EpochYear == 2000
SiriusMagnitude == -144
SiriusHip == 32349
Version == "0.1.3"

\* build(): the limiting magnitudes of the three calls, in call order
Limits == <<1600, 1100, 900>>
LimitSet == {Limits[k] : k \in 1..Len(Limits)}

\* scaled-down configurations, beside the script's own values
SmallChunkSizes == {1, 2}
SmallRowGroupSizes == {1, 2}

(***************************************************************************)
(* Values                                                                  *)
(***************************************************************************)
Num(v) == [nan |-> FALSE, v |-> v]
NaN == [nan |-> TRUE, v |-> 0]

Row(hip, magnitude, ra, geom, pm_ra, pm_dec, con) ==
    [hip |-> hip, magnitude |-> magnitude, ra |-> ra, geom |-> geom,
     ra_mas_per_year |-> pm_ra, dec_mas_per_year |-> pm_dec,
     constellation_id |-> con]

Rows ==
    { Row(SiriusHip, SiriusMagnitude, 101, "ok", Num(-546), Num(-1223), "cma"),
      Row(SiriusHip, 900, 101, "ok", NaN, Num(0), "cma"),
      Row(71683, 900, 101, "ok", Num(0), NaN, "cen"),
      Row(71683, 1000, 219, "ok", Num(0), Num(0), "cen"),
      Row(71683, 900, 219, "invalid", Num(0), Num(0), "cen"),
      Row(71683, SiriusMagnitude, 219, "empty", Num(0), Num(0), "cen") }

\* The synthetic 20-row file of the end-to-end scenario: the rows at `above`
\* exceed the threshold 9, the row `bad` has invalid coordinates.
ScenarioRow(j, above, bad) ==
    Row(j,
        IF j \in above THEN 900 + j ELSE 45 * j,
        (17 * j) % 360,
        IF j = bad THEN "invalid" ELSE "ok",
        Num(0), Num(0), "cen")

ScenarioInputs ==
    { [j \in 1..20 |-> ScenarioRow(j, above, bad)] :
        above \in {{1, 2, 3}, {2, 9, 20}, {18, 19, 20}}, bad \in {4, 10, 17} }

Inputs == UNION {[1..n -> Rows] : n \in 0..MaxLen} \cup ScenarioInputs

(***************************************************************************)
(* build_magnitude: the path, the filter, the generator                    *)
(***************************************************************************)
\* variant: one path for every limiting magnitude
OutputPathFixed(limit) == [version |-> Version, mag |-> 0]

OutputPath(limit) == [version |-> Version, mag |-> limit]

Paths == {OutputPath(l) : l \in LimitSet}

\* geometry = Point(star.ra, star.dec): the row's geom is what shapely makes of it
IsValid(row) == row.geom # "invalid"
IsEmpty(row) == row.geom = "empty"

\* variant: a row exactly at the limit is dropped too
RejectedAtLimit(row, limit) ==
    ~IsValid(row) \/ IsEmpty(row) \/ row.magnitude >= limit

Rejected(row, limit) ==
    ~IsValid(row) \/ IsEmpty(row) \/ row.magnitude > limit

\* Python truth of a float: only 0.0 is false, NaN is true
Truthy(x) == x.nan \/ x.v # 0

\* x or 0
OrZero(x) == IF Truthy(x) THEN x ELSE Num(0)

\* variant: the row number instead of the counter
NextPkByRow(c, n) == n + 1

\* ctr += 1, with n the rows consumed before this one
NextPk(c, n) == c + 1

MakeStar(row, pk) ==
    [pk |-> pk,
     hip |-> row.hip,
     ra |-> row.ra,
     constellation_id |-> row.constellation_id,
     magnitude |-> row.magnitude,
     ra_mas_per_year |-> OrZero(row.ra_mas_per_year),
     dec_mas_per_year |-> OrZero(row.dec_mas_per_year),
     epoch_year |-> EpochYear]

AcceptedCount(inp, limit) ==
    Cardinality({j \in 1..Len(inp) : ~Rejected(inp[j], limit)})

(***************************************************************************)
(* Catalog.build, Star.all, Star.get (starplot; from the design document)  *)
(***************************************************************************)
\* the spatial cell of a position at resolution HealpixNside
HealpixIndex(ra) == ra \div (360 \div HealpixNside)

Entry(star) == [obj |-> star, healpix_index |-> HealpixIndex(star.ra)]

\* the order sorting_columns = ["magnitude", "healpix_index"] asks for
KeyLeq(a, b) ==
    \/ a.obj.magnitude < b.obj.magnitude
    \/ /\ a.obj.magnitude = b.obj.magnitude
       /\ a.healpix_index <= b.healpix_index

\* variant: the chunk is written in arrival order
Unsorted(s, idx) == {s}

\* Every order of the entries s[j], j in idx, that is sorted on the sorting
\* columns: the stability of the sort is not fixed, so entries equal on both
\* columns may come out in any order.
RECURSIVE SortOutcomes(_, _)
SortOutcomes(s, idx) ==
    IF idx = {} THEN {<<>>}
    ELSE UNION { { <<s[m]>> \o t : t \in SortOutcomes(s, idx \ {m}) } :
                 m \in {j \in idx : \A k \in idx : KeyLeq(s[j], s[k])} }

\* variant: an empty buffer is flushed as a chunk too
FlushAlways(buf) == TRUE

\* a chunk is handed to the writer only when the buffer holds something
FlushNeeded(buf) == buf # <<>>

Min(a, b) == IF a <= b THEN a ELSE b

RECURSIVE Flatten(_)
Flatten(groups) ==
    IF groups = <<>> THEN <<>>
    ELSE Head(groups).rows \o Flatten(Tail(groups))

\* variant: only the first row group is read
AllRecordsFirstGroup(art) ==
    IF art.groups = <<>> THEN <<>>
    ELSE [k \in 1..Len(art.groups[1].rows) |-> art.groups[1].rows[k].obj]

\* Star.all: every record of every row group, in stored order
AllRecords(art) ==
    LET f == Flatten(art.groups) IN [k \in 1..Len(f) |-> f[k].obj]

\* variant: the last stored record matching
GetLast(art, hip) ==
    LET s == AllRecords(art)
        m == {k \in 1..Len(s) : s[k].hip = hip}
    IN IF m = {} THEN <<>>
       ELSE <<s[CHOOSE k \in m : \A l \in m : l <= k]>>

\* Star.get: the first stored record matching, or not found
Get(art, hip) ==
    LET s == AllRecords(art)
        m == {k \in 1..Len(s) : s[k].hip = hip}
    IN IF m = {} THEN <<>>
       ELSE <<s[CHOOSE k \in m : \A l \in m : k <= l]>>

NoArtifact == [groups |-> <<>>, manifest |-> FALSE]

Store == disk[OutputPath(limiting_magnitude)]

(***************************************************************************)
(* Initial states                                                          *)
(***************************************************************************)
ExpectedChoices(inp, limit) == {AcceptedCount(inp, limit), Len(inp) + 1}

Fresh ==
    /\ pc = "build"
    /\ i = 0
    /\ ctr = 0
    /\ emitted = <<>>
    /\ src = <<>>
    /\ buffer = <<>>
    /\ pending = <<>>
    /\ chunk_no = 0
    /\ all_stars = <<>>
    /\ sirius = <<>>
    /\ failure = ""

\* one call of build_magnitude, under any configuration of Catalog.build
Init ==
    /\ input \in Inputs
    /\ limiting_magnitude \in (IF input \in ScenarioInputs THEN {900} ELSE LimitSet)
    /\ expected_count \in ExpectedChoices(input, limiting_magnitude)
    /\ chunk_size \in SmallChunkSizes \cup {ChunkSize}
    /\ row_group_size \in SmallRowGroupSizes \cup {RowGroupSize}
    /\ Fresh
    /\ disk = [p \in Paths |-> NoArtifact]
    /\ call = 1
    /\ run = 1
    /\ written = {}
    /\ written_run = {}

\* a run of build(): the first call, with the configuration of the script
InitBuild ==
    /\ input \in UNION {[1..n -> Rows] : n \in 0..2}
    /\ limiting_magnitude = Limits[1]
    /\ expected_count \in ExpectedChoices(input, limiting_magnitude)
    /\ chunk_size = ChunkSize
    /\ row_group_size = RowGroupSize
    /\ Fresh
    /\ disk = [p \in Paths |-> NoArtifact]
    /\ call = 1
    /\ run = 1
    /\ written = {}
    /\ written_run = {}

params == <<input, limiting_magnitude, expected_count, chunk_size, row_group_size>>
script == <<call, run>>
history == <<written, written_run>>

(***************************************************************************)
(* Steps of build_magnitude                                                *)
(***************************************************************************)
\* catalog = Catalog(path=output_path, ...); catalog.build(...) starts a new
\* artifact at the path: what was stored there before is replaced
CatalogBuildStart ==
    /\ pc = "build"
    /\ disk' = [disk EXCEPT ![OutputPath(limiting_magnitude)] = NoArtifact]
    /\ pc' = "pull"
    /\ UNCHANGED <<params, i, ctr, emitted, src, buffer, pending, chunk_no,
                   all_stars, sirius, failure, script, history>>

\* stars(): the next row fails the filter: continue
StarsSkip ==
    /\ pc = "pull"
    /\ i < Len(input)
    /\ Rejected(input[i + 1], limiting_magnitude)
    /\ i' = i + 1
    /\ UNCHANGED <<params, pc, ctr, emitted, src, buffer, pending, chunk_no,
                   disk, all_stars, sirius, failure, script, history>>

\* stars(): the next row passes the filter: ctr += 1, yield Star(pk=ctr, ...);
\* Catalog.build puts the object, with its spatial cell, into the buffer
StarsYield ==
    /\ pc = "pull"
    /\ i < Len(input)
    /\ ~Rejected(input[i + 1], limiting_magnitude)
    /\ LET c == NextPk(ctr, i)
           star == MakeStar(input[i + 1], c)
       IN /\ ctr' = c
          /\ emitted' = Append(emitted, star)
          /\ src' = Append(src, i + 1)
          /\ buffer' = Append(buffer, Entry(star))
          /\ pc' = IF Len(buffer) + 1 >= chunk_size THEN "flush" ELSE "pull"
    /\ i' = i + 1
    /\ UNCHANGED <<params, pending, chunk_no, disk, all_stars, sirius, failure,
                   script, history>>

\* stars(): d.itertuples() is exhausted, the generator returns
StarsExhausted ==
    /\ pc = "pull"
    /\ i = Len(input)
    /\ pc' = IF FlushNeeded(buffer) THEN "flush" ELSE "manifest"
    /\ UNCHANGED <<params, i, ctr, emitted, src, buffer, pending, chunk_no,
                   disk, all_stars, sirius, failure, script, history>>

\* Catalog.build: the buffer is sorted on the sorting columns and handed to
\* the writer as one chunk; the buffer is cleared
FlushChunk ==
    /\ pc = "flush"
    /\ pending' \in SortOutcomes(buffer, 1..Len(buffer))
    /\ buffer' = <<>>
    /\ chunk_no' = chunk_no + 1
    /\ pc' = "write"
    /\ UNCHANGED <<params, i, ctr, emitted, src, disk, all_stars, sirius,
                   failure, script, history>>

\* Catalog.build: the next row group of the chunk, at most row_group_size
\* records, is appended to the artifact
WriteRowGroup ==
    /\ pc = "write"
    /\ LET n == Min(row_group_size, Len(pending))
           group == [chunk |-> chunk_no, rows |-> SubSeq(pending, 1, n)]
           path == OutputPath(limiting_magnitude)
       IN /\ disk' = [disk EXCEPT ![path].groups = Append(@, group)]
          /\ pending' = SubSeq(pending, n + 1, Len(pending))
          /\ pc' = IF n = Len(pending) THEN "pull" ELSE "write"
    /\ UNCHANGED <<params, i, ctr, emitted, src, buffer, chunk_no, all_stars,
                   sirius, failure, script, history>>

\* Catalog.build: a write fails; the error is fatal and no manifest is written
WriteFail ==
    /\ pc = "write"
    /\ pc' = "failed"
    /\ failure' = "io"
    /\ UNCHANGED <<params, i, ctr, emitted, src, buffer, pending, chunk_no,
                   disk, all_stars, sirius, script, history>>

\* Catalog.build: every row group is flushed; the manifest is written last
WriteManifest ==
    /\ pc = "manifest"
    /\ LET path == OutputPath(limiting_magnitude)
       IN /\ disk' = [disk EXCEPT ![path].manifest = TRUE]
          /\ written' = written \cup {path}
          /\ written_run' = written_run \cup {path}
    /\ pc' = "all"
    /\ UNCHANGED <<params, i, ctr, emitted, src, buffer, pending, chunk_no,
                   all_stars, sirius, failure, script>>

\* all_stars = [s for s in Star.all(catalog=catalog)]
StarAll ==
    /\ pc = "all"
    /\ all_stars' = AllRecords(Store)
    /\ pc' = "assert_count"
    /\ UNCHANGED <<params, i, ctr, emitted, src, buffer, pending, chunk_no,
                   disk, sirius, failure, script, history>>

\* assert len(all_stars) == expected_count
AssertCount ==
    /\ pc = "assert_count"
    /\ IF Len(all_stars) = expected_count
       THEN pc' = "get" /\ failure' = failure
       ELSE pc' = "failed" /\ failure' = "count"
    /\ UNCHANGED <<params, i, ctr, emitted, src, buffer, pending, chunk_no,
                   disk, all_stars, sirius, script, history>>

\* sirius = Star.get(name="Sirius", catalog=catalog): the name is looked up
\* as the star's hip number
StarGet ==
    /\ pc = "get"
    /\ sirius' = Get(Store, SiriusHip)
    /\ pc' = "assert_sirius"
    /\ UNCHANGED <<params, i, ctr, emitted, src, buffer, pending, chunk_no,
                   disk, all_stars, failure, script, history>>

\* the three assertions on sirius; on a result of not found the first one
\* raises on the attribute access
AssertSirius ==
    /\ pc = "assert_sirius"
    /\ failure' =
         IF sirius = <<>> THEN "none"
         ELSE IF sirius[1].magnitude # SiriusMagnitude THEN "magnitude"
         ELSE IF sirius[1].hip # SiriusHip THEN "hip"
         ELSE IF sirius[1].constellation_id # "cma" THEN "constellation"
         ELSE ""
    /\ pc' = IF failure' = "" THEN "done" ELSE "failed"
    /\ UNCHANGED <<params, i, ctr, emitted, src, buffer, pending, chunk_no,
                   disk, all_stars, sirius, script, history>>

Restart ==
    /\ pc' = "build"
    /\ i' = 0
    /\ ctr' = 0
    /\ emitted' = <<>>
    /\ src' = <<>>
    /\ buffer' = <<>>
    /\ pending' = <<>>
    /\ chunk_no' = 0
    /\ all_stars' = <<>>
    /\ sirius' = <<>>
    /\ failure' = ""

\* build(): the next call of build_magnitude
NextCall ==
    /\ pc = "done"
    /\ call < Len(Limits)
    /\ call' = call + 1
    /\ limiting_magnitude' = Limits[call + 1]
    /\ expected_count' \in ExpectedChoices(input, Limits[call + 1])
    /\ Restart
    /\ UNCHANGED <<input, chunk_size, row_group_size, disk, run, history>>

\* the script is run again, after a run that finished or one that raised
Rerun ==
    /\ \/ pc = "done" /\ call = Len(Limits)
       \/ pc = "failed"
    /\ run < MaxRuns
    /\ run' = run + 1
    /\ call' = 1
    /\ limiting_magnitude' = Limits[1]
    /\ expected_count' \in ExpectedChoices(input, Limits[1])
    /\ written_run' = {}
    /\ Restart
    /\ UNCHANGED <<input, chunk_size, row_group_size, disk, written>>

Next ==
    \/ CatalogBuildStart
    \/ StarsSkip
    \/ StarsYield
    \/ StarsExhausted
    \/ FlushChunk
    \/ WriteRowGroup
    \/ WriteFail
    \/ WriteManifest
    \/ StarAll
    \/ AssertCount
    \/ StarGet
    \/ AssertSirius

NextBuild ==
    \/ Next
    \/ NextCall
    \/ Rerun

\* one call of build_magnitude
Spec == Init /\ [][Next]_vars

\* runs of build()
SpecBuild == InitBuild /\ [][NextBuild]_vars

(***************************************************************************)
(* Properties                                                              *)
(***************************************************************************)
Accepted(row, limit) ==
    IsValid(row) /\ ~IsEmpty(row) /\ row.magnitude <= limit

Range(s) == {s[k] : k \in 1..Len(s)}

\* the stored entries, row group after row group
Stored == Flatten(Store.groups)

\* Star.all has returned
AfterAll ==
    \/ pc \in {"assert_count", "get", "assert_sirius", "done"}
    \/ pc = "failed" /\ failure \in {"count", "none", "magnitude", "hip", "constellation"}

\* Star.get has returned
AfterGet ==
    \/ pc \in {"assert_sirius", "done"}
    \/ pc = "failed" /\ failure \in {"none", "magnitude", "hip", "constellation"}

\* every row was filtered out (or the file has no rows) and the generator is done
NothingAccepted == i = Len(input) /\ emitted = <<>> /\ pc \notin {"build", "pull"}

\* C1: the k-th record the filter accepts is emitted with pk = k, however
\* many rows were rejected before it; the counter equals the number accepted.
C1_PkDense ==
    /\ ctr = Len(emitted)
    /\ \A k \in 1..Len(emitted) : emitted[k].pk = k

\* C1 witness: a second accepted record that follows at least one rejected row.
C1_Witness ==
    /\ Len(emitted) >= 2
    /\ src[Len(emitted)] > Len(emitted)
    /\ emitted[Len(emitted)].pk = Len(emitted)

\* C2: of the rows consumed so far, exactly those with a valid, non-empty
\* geometry and a magnitude not above the limit were emitted, in file order
\* and with the row's values; nothing else is in the buffer, the chunk being
\* written, the store or the list read back; and the 20-row scenario with 3
\* rows above the threshold 9 and 1 invalid row stores 16 records, pk 1..16.
C2_FilterExact ==
    LET acc == {j \in 1..i : Accepted(input[j], limiting_magnitude)}
        above == {j \in 1..Len(input) : input[j].magnitude > 900}
        invalid == {j \in 1..Len(input) : ~IsValid(input[j])}
        empty == {j \in 1..Len(input) : IsEmpty(input[j])}
    IN /\ Len(src) = Cardinality(acc)
       /\ Len(emitted) = Len(src)
       /\ \A k \in 1..Len(src) :
            /\ src[k] \in acc
            /\ k > 1 => src[k - 1] < src[k]
            /\ emitted[k].hip = input[src[k]].hip
            /\ emitted[k].magnitude = input[src[k]].magnitude
            /\ emitted[k].ra = input[src[k]].ra
            /\ emitted[k].constellation_id = input[src[k]].constellation_id
       /\ \A e \in Range(buffer) \cup Range(pending) \cup Range(Stored) :
            e.obj \in Range(emitted)
       /\ Range(all_stars) \subseteq Range(emitted)
       /\ ( /\ Len(input) = 20
            /\ limiting_magnitude = 900
            /\ Cardinality(above) = 3
            /\ Cardinality(invalid) = 1
            /\ above \cap invalid = {}
            /\ empty = {}
            /\ Store.manifest )
          => /\ Len(Stored) = 16
             /\ {e.obj.pk : e \in Range(Stored)} = 1..16

\* C2 witness: the scenario's catalog was read back with 16 records, the
\* count assertion passed, and the last row, exactly at the limit, is stored.
C2_Witness ==
    /\ Len(input) = 20
    /\ pc = "get"
    /\ Len(all_stars) = 16
    /\ input[20].magnitude = limiting_magnitude
    /\ \E s \in Range(all_stars) : s.hip = input[20].hip

\* C3: an emitted rate field is a number, 0 when the CSV cell is empty and
\* the cell's value otherwise.
C3_RatesDefaultZero ==
    \A k \in 1..Len(emitted) :
        LET row == input[src[k]]
            star == emitted[k]
        IN /\ ~star.ra_mas_per_year.nan
           /\ ~star.dec_mas_per_year.nan
           /\ star.ra_mas_per_year =
                IF row.ra_mas_per_year.nan THEN Num(0) ELSE row.ra_mas_per_year
           /\ star.dec_mas_per_year =
                IF row.dec_mas_per_year.nan THEN Num(0) ELSE row.dec_mas_per_year

\* C4: what Star.all returns after a build is every emitted record exactly
\* once, with the values written, and nothing else; once the count assertion
\* has passed, their number is expected_count.
C4_RoundTrip ==
    AfterAll =>
        /\ Len(all_stars) = Len(emitted)
        /\ \A k \in 1..Len(emitted) :
             Cardinality({m \in 1..Len(all_stars) : all_stars[m] = emitted[k]}) = 1
        /\ pc \in {"get", "assert_sirius", "done"} => Len(all_stars) = expected_count

\* C4 witness: a finished build whose store has several row groups and holds
\* a record with a rate of 0.
C4_Witness ==
    /\ pc = "done"
    /\ Len(Store.groups) >= 2
    /\ Len(all_stars) >= 2
    /\ \E s \in Range(all_stars) : s.dec_mas_per_year = Num(0)

GroupsInOrder(g, h) ==
    \A a \in Range(g.rows), b \in Range(h.rows) :
        \/ a.obj.magnitude < b.obj.magnitude
        \/ a.obj.magnitude = b.obj.magnitude /\ a.healpix_index <= b.healpix_index

C8_NoManifestAfterAbort ==
    pc = "failed" => ~Store.manifest

\* C9: a store made from one chunk is ordered by magnitude, then
\* healpix_index, then pk, all ascending.
C9_TotalOrder ==
    (Store.manifest /\ chunk_no <= 1) =>
        \A k \in 1..Len(Stored), l \in 1..Len(Stored) :
            k < l =>
                LET a == Stored[k]
                    b == Stored[l]
                IN \/ a.obj.magnitude < b.obj.magnitude
                   \/ /\ a.obj.magnitude = b.obj.magnitude
                      /\ a.healpix_index < b.healpix_index
                   \/ /\ a.obj.magnitude = b.obj.magnitude
                      /\ a.healpix_index = b.healpix_index
                      /\ a.obj.pk < b.obj.pk

Building == pc \in {"pull", "flush", "write", "manifest"}

\* C10 as stated: a build never writes to a path that an earlier completed
\* build, of this or of an earlier run of build(), wrote to.
C10_FreshPathEveryBuild ==
    Building => OutputPath(limiting_magnitude) \notin written

\* C10 amended: within one run of build() no step changes an artifact that
\* a build of that run completed, and Star.all and Star.get change nothing
\* on disk.
C10_FreshPathWithinRun ==
    [][ /\ \A p \in written_run : disk'[p] = disk[p]
        /\ pc \in {"all", "get"} => disk' = disk ]_vars

\* C10 witness: the third build of a run has finished; three artifacts of
\* this run are complete.
C10_Witness ==
    /\ call = 3
    /\ pc = "done"
    /\ Cardinality(written_run) = 3
    /\ \A p \in written_run : disk[p].manifest
====
